---- MODULE Spec2Model ----
(***************************************************************************)
(* Model of rate-gate (src/src/rate-gate.ts): a per-key sliding-window     *)
(* rate limiter (RateGate) over a pluggable timestamp store                *)
(* (MemoryBackend).                                                        *)
(*                                                                         *)
(* Time is in milliseconds, as returned by Date.now(), counted from the    *)
(* instant the gate is constructed (the code only uses differences of      *)
(* instants).                                                              *)
(***************************************************************************)
EXTENDS Integers, Sequences, FiniteSets, TLC

(***************************************************************************)
(* Bounds of the model.                                                    *)
(***************************************************************************)
MaxLimit == 2        \* options.limit ranges over 1..MaxLimit
TickMs   == 500      \* the clock advances in steps of TickMs milliseconds
MaxTicks == 4        \* the clock stops after MaxTicks steps
MaxHits  == 3        \* at most MaxHits hit() calls in a behaviour

Keys     == {"user1", "user2"}
Procs    == {"p1", "p2"}     \* the callers whose calls may overlap
AsyncKeys == {"user1"}       \* the key the overlapping hit() calls are for
Sweepers == {"p2"}           \* the callers that also run cleanup()
KeyOrder == <<"user1", "user2">>
Windows  == {1500}           \* values of options.windowMs
MaxNow   == MaxTicks * TickMs

VARIABLES
    limit,       \* RateGate.limit     (private readonly)
    windowMs,    \* RateGate.windowMs  (private readonly)
    store,       \* MemoryBackend.store : Map<string, number[]>
    now,         \* the value Date.now() returns
    hist,        \* history: per key, the hit() calls made and their outcome
    denied,      \* history: per key, the oldest counted timestamp when the
                 \* last successful hit left the key at its limit (check
                 \* returns false), None when it did not
    promise,     \* history: per key, the earliest instant t + 1000 * r for
                 \* the resetIn values r handed out at instants t while the
                 \* key was at its limit, since the last successful hit
    last,        \* the last completed call, what it returned and the
                 \* backend calls it issued
    calls        \* per caller, the hit() or cleanup() call it has in
                 \* flight: the await it stands at and its local variables

vars == <<limit, windowMs, store, now, hist, denied, promise, last, calls>>

(***************************************************************************)
(* MemoryBackend                                                           *)
(***************************************************************************)
BackendGet(s, key) == IF key \in DOMAIN s THEN s[key] ELSE <<>>

\* a backend that keeps one array for all keys
BackendSetShared(s, key, timestamps) ==
    [x \in (DOMAIN s) \cup {key} |-> timestamps]

BackendSet(s, key, timestamps) ==
    [x \in (DOMAIN s) \cup {key} |-> IF x = key THEN timestamps ELSE s[x]]

BackendDelete(s, key) == [x \in (DOMAIN s) \ {key} |-> s[x]]

BackendKeys(s) == SelectSeq(KeyOrder, LAMBDA x : x \in DOMAIN s)

(***************************************************************************)
(* timestamps.filter((ts) => ts > windowStart)                             *)
(***************************************************************************)
ValidTimestamps(timestamps, windowStart) ==
    SelectSeq(timestamps, LAMBDA ts : ts > windowStart)

\* Math.ceil(ms / 1000)
MsPerSecond == 1000
\* Math.floor in place of Math.ceil
FloorSeconds(ms) == ms \div MsPerSecond

CeilSeconds(ms) == -((-ms) \div MsPerSecond)

Max(a, b) == IF a >= b THEN a ELSE b

NoError == [thrown |-> FALSE, resetIn |-> 0, limit |-> 0, windowMs |-> 0]

\* the limit and windowMs options passed in each other's place
RateLimitErrorSwapped(resetIn, lim, win) ==
    [thrown |-> TRUE, resetIn |-> resetIn, limit |-> win, windowMs |-> lim]

\* new RateLimitError(message, {resetIn, limit, windowMs})
RateLimitError(resetIn, lim, win) ==
    [thrown |-> TRUE, resetIn |-> resetIn, limit |-> lim, windowMs |-> win]

(***************************************************************************)
(* RateGate.check / hit / resetIn / remaining / cleanup, each evaluated on *)
(* a store s at the instant t read from the clock.  Each returns the store *)
(* it leaves, what it returns, and the backend calls it issued.            *)
(***************************************************************************)
\* check() that counts the stored timestamps without filtering them
CheckCallNoPrune(s, key, t) ==
    LET timestamps == BackendGet(s, key)
    IN  [store |-> s,
         ret   |-> Len(timestamps) < limit,
         calls |-> << <<"get", key>> >>]

\* check() that writes the filtered timestamps back
CheckCallWriteBack(s, key, t) ==
    LET windowStart     == t - windowMs
        timestamps      == BackendGet(s, key)
        validTimestamps == ValidTimestamps(timestamps, windowStart)
    IN  [store |-> BackendSet(s, key, validTimestamps),
         ret   |-> Len(validTimestamps) < limit,
         calls |-> << <<"get", key>>, <<"set", key>> >>]

\* check() that tests length <= limit in place of length < limit
CheckCallInclusive(s, key, t) ==
    LET windowStart     == t - windowMs
        timestamps      == BackendGet(s, key)
        validTimestamps == ValidTimestamps(timestamps, windowStart)
    IN  [store |-> s,
         ret   |-> Len(validTimestamps) <= limit,
         calls |-> << <<"get", key>> >>]

CheckCall(s, key, t) ==
    LET windowStart     == t - windowMs
        timestamps      == BackendGet(s, key)
        validTimestamps == ValidTimestamps(timestamps, windowStart)
    IN  [store |-> s,
         ret   |-> Len(validTimestamps) < limit,
         calls |-> << <<"get", key>> >>]

\* hit() that tests length > limit in place of length >= limit
HitCallOffByOne(s, key, t) ==
    LET windowStart     == t - windowMs
        timestamps      == BackendGet(s, key)
        validTimestamps == ValidTimestamps(timestamps, windowStart)
    IN  IF Len(validTimestamps) > limit
        THEN LET oldestTimestamp == validTimestamps[1]
                 resetIn == CeilSeconds(oldestTimestamp + windowMs - t)
             IN  [store |-> s,
                  err   |-> RateLimitError(resetIn, limit, windowMs),
                  calls |-> << <<"get", key>> >>]
        ELSE [store |-> BackendSet(s, key, Append(validTimestamps, t)),
              err   |-> NoError,
              calls |-> << <<"get", key>>, <<"set", key>> >>]

\* hit() that stores only the new timestamp
HitCallOverwrite(s, key, t) ==
    LET windowStart     == t - windowMs
        timestamps      == BackendGet(s, key)
        validTimestamps == ValidTimestamps(timestamps, windowStart)
    IN  IF Len(validTimestamps) >= limit
        THEN LET oldestTimestamp == validTimestamps[1]
                 resetIn == CeilSeconds(oldestTimestamp + windowMs - t)
             IN  [store |-> s,
                  err   |-> RateLimitError(resetIn, limit, windowMs),
                  calls |-> << <<"get", key>> >>]
        ELSE [store |-> BackendSet(s, key, <<t>>),
              err   |-> NoError,
              calls |-> << <<"get", key>>, <<"set", key>> >>]

\* hit() that records the request before it tests the limit
HitCallRecordOnFail(s, key, t) ==
    LET windowStart     == t - windowMs
        timestamps      == BackendGet(s, key)
        validTimestamps == ValidTimestamps(timestamps, windowStart)
    IN  IF Len(validTimestamps) >= limit
        THEN LET oldestTimestamp == validTimestamps[1]
                 resetIn == CeilSeconds(oldestTimestamp + windowMs - t)
             IN  [store |-> BackendSet(s, key, Append(validTimestamps, t)),
                  err   |-> RateLimitError(resetIn, limit, windowMs),
                  calls |-> << <<"get", key>>, <<"set", key>> >>]
        ELSE [store |-> BackendSet(s, key, Append(validTimestamps, t)),
              err   |-> NoError,
              calls |-> << <<"get", key>>, <<"set", key>> >>]

\* hit() that appends to the stored timestamps, expired ones included
HitCallKeepExpired(s, key, t) ==
    LET windowStart     == t - windowMs
        timestamps      == BackendGet(s, key)
        validTimestamps == ValidTimestamps(timestamps, windowStart)
    IN  IF Len(validTimestamps) >= limit
        THEN LET oldestTimestamp == validTimestamps[1]
                 resetIn == CeilSeconds(oldestTimestamp + windowMs - t)
             IN  [store |-> s,
                  err   |-> RateLimitError(resetIn, limit, windowMs),
                  calls |-> << <<"get", key>> >>]
        ELSE [store |-> BackendSet(s, key, Append(timestamps, t)),
              err   |-> NoError,
              calls |-> << <<"get", key>>, <<"set", key>> >>]

\* hit() that takes the newest valid timestamp for the oldest
HitCallNewest(s, key, t) ==
    LET windowStart     == t - windowMs
        timestamps      == BackendGet(s, key)
        validTimestamps == ValidTimestamps(timestamps, windowStart)
    IN  IF Len(validTimestamps) >= limit
        THEN LET oldestTimestamp == validTimestamps[Len(validTimestamps)]
                 resetIn == CeilSeconds(oldestTimestamp + windowMs - t)
             IN  [store |-> s,
                  err   |-> RateLimitError(resetIn, limit, windowMs),
                  calls |-> << <<"get", key>> >>]
        ELSE [store |-> BackendSet(s, key, Append(validTimestamps, t)),
              err   |-> NoError,
              calls |-> << <<"get", key>>, <<"set", key>> >>]

HitCall(s, key, t) ==
    LET windowStart     == t - windowMs
        timestamps      == BackendGet(s, key)
        validTimestamps == ValidTimestamps(timestamps, windowStart)
    IN  IF Len(validTimestamps) >= limit
        THEN LET oldestTimestamp == validTimestamps[1]
                 resetIn == CeilSeconds(oldestTimestamp + windowMs - t)
             IN  [store |-> s,
                  err   |-> RateLimitError(resetIn, limit, windowMs),
                  calls |-> << <<"get", key>> >>]
        ELSE [store |-> BackendSet(s, key, Append(validTimestamps, t)),
              err   |-> NoError,
              calls |-> << <<"get", key>>, <<"set", key>> >>]

\* resetIn() on the stored timestamps, unfiltered, rounding up by
\* Math.floor(x) + 1
ResetInCallUnpruned(s, key, t) ==
    LET timestamps == BackendGet(s, key)
    IN  [store |-> s,
         ret   |-> IF Len(timestamps) = 0
                   THEN 0
                   ELSE LET oldestTimestamp == timestamps[1]
                            resetMs == oldestTimestamp + windowMs - t
                        IN  Max(0, (resetMs \div MsPerSecond) + 1),
         calls |-> << <<"get", key>> >>]

ResetInCall(s, key, t) ==
    LET windowStart     == t - windowMs
        timestamps      == BackendGet(s, key)
        validTimestamps == ValidTimestamps(timestamps, windowStart)
    IN  [store |-> s,
         ret   |-> IF Len(validTimestamps) = 0
                   THEN 0
                   ELSE LET oldestTimestamp == validTimestamps[1]
                            resetMs == oldestTimestamp + windowMs - t
                        IN  Max(0, CeilSeconds(resetMs)),
         calls |-> << <<"get", key>> >>]

\* remaining() that counts the request being made as well
RemainingCallOffByOne(s, key, t) ==
    LET windowStart     == t - windowMs
        timestamps      == BackendGet(s, key)
        validTimestamps == ValidTimestamps(timestamps, windowStart)
    IN  [store |-> s,
         ret   |-> Max(0, limit - Len(validTimestamps) - 1),
         calls |-> << <<"get", key>> >>]

RemainingCall(s, key, t) ==
    LET windowStart     == t - windowMs
        timestamps      == BackendGet(s, key)
        validTimestamps == ValidTimestamps(timestamps, windowStart)
    IN  [store |-> s,
         ret   |-> Max(0, limit - Len(validTimestamps)),
         calls |-> << <<"get", key>> >>]

\* cleanup that writes an emptied sequence back in place of deleting the key
CleanupKeyNoDelete(acc, key, windowStart) ==
    LET timestamps      == BackendGet(acc.store, key)
        validTimestamps == ValidTimestamps(timestamps, windowStart)
    IN  IF Len(validTimestamps) < Len(timestamps)
        THEN [store |-> BackendSet(acc.store, key, validTimestamps),
              calls |-> acc.calls \o << <<"get", key>>, <<"set", key>> >>]
        ELSE [store |-> acc.store,
              calls |-> acc.calls \o << <<"get", key>> >>]

\* cleanup that writes the filtered sequence back even when nothing expired
CleanupKeyAlwaysSet(acc, key, windowStart) ==
    LET timestamps      == BackendGet(acc.store, key)
        validTimestamps == ValidTimestamps(timestamps, windowStart)
    IN  IF Len(validTimestamps) = 0
        THEN [store |-> BackendDelete(acc.store, key),
              calls |-> acc.calls \o << <<"get", key>>, <<"delete", key>> >>]
        ELSE [store |-> BackendSet(acc.store, key, validTimestamps),
              calls |-> acc.calls \o << <<"get", key>>, <<"set", key>> >>]

\* cleanup that writes the empty filtered sequence back under the key
CleanupKeySetEmpty(acc, key, windowStart) ==
    LET timestamps      == BackendGet(acc.store, key)
        validTimestamps == ValidTimestamps(timestamps, windowStart)
    IN  IF Len(validTimestamps) = 0
        THEN [store |-> BackendSet(acc.store, key, validTimestamps),
              calls |-> acc.calls \o << <<"get", key>>, <<"set", key>> >>]
        ELSE IF Len(validTimestamps) < Len(timestamps)
        THEN [store |-> BackendSet(acc.store, key, validTimestamps),
              calls |-> acc.calls \o << <<"get", key>>, <<"set", key>> >>]
        ELSE [store |-> acc.store,
              calls |-> acc.calls \o << <<"get", key>> >>]

\* one iteration of cleanup's for loop, for allKeys[i]
CleanupKey(acc, key, windowStart) ==
    LET timestamps      == BackendGet(acc.store, key)
        validTimestamps == ValidTimestamps(timestamps, windowStart)
    IN  IF Len(validTimestamps) = 0
        THEN [store |-> BackendDelete(acc.store, key),
              calls |-> acc.calls \o << <<"get", key>>, <<"delete", key>> >>]
        ELSE IF Len(validTimestamps) < Len(timestamps)
        THEN [store |-> BackendSet(acc.store, key, validTimestamps),
              calls |-> acc.calls \o << <<"get", key>>, <<"set", key>> >>]
        ELSE [store |-> acc.store,
              calls |-> acc.calls \o << <<"get", key>> >>]

RECURSIVE CleanupLoop(_, _, _, _)
CleanupLoop(acc, allKeys, i, windowStart) ==
    IF i > Len(allKeys)
    THEN acc
    ELSE CleanupLoop(CleanupKey(acc, allKeys[i], windowStart),
                     allKeys, i + 1, windowStart)

CleanupCall(s, t) ==
    LET windowStart == t - windowMs
        allKeys     == BackendKeys(s)
    IN  CleanupLoop([store |-> s, calls |-> << <<"keys", "">> >>],
                    allKeys, 1, windowStart)

(***************************************************************************)
(* The state machine: calls that run one at a time.                        *)
(***************************************************************************)
NoKey == ""
None  == 0 - 1      \* no instant recorded

Min(a, b) == IF a <= b THEN a ELSE b

RECURSIVE SumLen(_, _)
SumLen(h, ks) ==
    IF ks = {} THEN 0
    ELSE LET k == CHOOSE x \in ks : TRUE
         IN  Len(h[k]) + SumLen(h, ks \ {k})

HitCalls == SumLen(hist, Keys)

\* the oldest timestamp a call at instant t counts for key
Oldest(s, key, t) == ValidTimestamps(BackendGet(s, key), t - windowMs)[1]

\* a caller told at instant t to come back in r seconds
Promised(p, t, r) ==
    IF p = None THEN t + MsPerSecond * r ELSE Min(p, t + MsPerSecond * r)

Done(op, key, ok, value, err, issued) ==
    [op |-> op, key |-> key, ok |-> ok, value |-> value, err |-> err,
     calls |-> issued]

\* a caller with no call in flight
Idle == [op |-> "idle", pc |-> "idle", key |-> NoKey, t |-> 0,
         read |-> <<>>, todo |-> <<>>, ok |-> TRUE]

\* new RateGate({limit, windowMs}) with a fresh MemoryBackend
Init ==
    /\ limit \in 1..MaxLimit
    /\ windowMs \in Windows
    /\ store = [x \in {} |-> <<>>]
    /\ now = 0
    /\ hist = [k \in Keys |-> <<>>]
    /\ denied = [k \in Keys |-> None]
    /\ promise = [k \in Keys |-> None]
    /\ last = Done("new", NoKey, TRUE, 0, NoError, <<>>)
    /\ calls = [p \in Procs |-> Idle]

\* time passes between two calls; the clock never goes backwards
Tick ==
    /\ now + TickMs <= MaxNow
    /\ now' = now + TickMs
    /\ UNCHANGED <<limit, windowMs, store, hist, denied, promise, last, calls>>

Check(key) ==
    LET r == CheckCall(store, key, now)
    IN  /\ store' = r.store
        /\ last' = Done("check", key, r.ret, 0, NoError, r.calls)
        /\ UNCHANGED <<limit, windowMs, now, hist, denied, promise, calls>>

Hit(key) ==
    LET r == HitCall(store, key, now)
    IN  /\ HitCalls < MaxHits
        /\ store' = r.store
        /\ hist' = [hist EXCEPT ![key] =
                      Append(@, [at |-> now, ok |-> ~r.err.thrown,
                                 resetIn |-> r.err.resetIn,
                                 due |-> /\ promise[key] # None
                                         /\ now >= promise[key]])]
        /\ denied' = IF r.err.thrown THEN denied
                      ELSE [denied EXCEPT ![key] =
                              IF CheckCall(r.store, key, now).ret
                              THEN None
                              ELSE Oldest(r.store, key, now)]
        /\ promise' = [promise EXCEPT ![key] =
                         IF r.err.thrown
                         THEN Promised(@, now, r.err.resetIn)
                         ELSE None]
        /\ last' = Done("hit", key, ~r.err.thrown, 0, r.err, r.calls)
        /\ UNCHANGED <<limit, windowMs, now, calls>>

ResetIn(key) ==
    LET r == ResetInCall(store, key, now)
    IN  /\ store' = r.store
        /\ last' = Done("resetIn", key, TRUE, r.ret, NoError, r.calls)
        /\ promise' = IF ~CheckCall(store, key, now).ret
                       THEN [promise EXCEPT ![key] = Promised(@, now, r.ret)]
                       ELSE promise
        /\ UNCHANGED <<limit, windowMs, now, hist, denied, calls>>

Remaining(key) ==
    LET r == RemainingCall(store, key, now)
    IN  /\ store' = r.store
        /\ last' = Done("remaining", key, TRUE, r.ret, NoError, r.calls)
        /\ UNCHANGED <<limit, windowMs, now, hist, denied, promise, calls>>

Cleanup ==
    LET r == CleanupCall(store, now)
    IN  /\ store' = r.store
        /\ last' = Done("cleanup", NoKey, TRUE, 0, NoError, r.calls)
        /\ UNCHANGED <<limit, windowMs, now, hist, denied, promise, calls>>

Next ==
    \/ Tick
    \/ \E key \in Keys : Check(key)
    \/ \E key \in Keys : Hit(key)
    \/ \E key \in Keys : ResetIn(key)
    \/ \E key \in Keys : Remaining(key)
    \/ Cleanup

Spec == Init /\ [][Next]_vars

(***************************************************************************)
(* The state machine of overlapping calls: hit and cleanup suspend at each *)
(* await of a backend call, and the calls of other callers run meanwhile.  *)
(***************************************************************************)
\* hit() that reads the stored timestamps again when it resumes
HitAfterGetReread(s, key, timestamps, t) ==
    LET windowStart     == t - windowMs
        validTimestamps == ValidTimestamps(BackendGet(s, key), windowStart)
    IN  IF Len(validTimestamps) >= limit
        THEN LET oldestTimestamp == validTimestamps[1]
                 resetIn == CeilSeconds(oldestTimestamp + windowMs - t)
             IN  [store |-> s,
                  err   |-> RateLimitError(resetIn, limit, windowMs)]
        ELSE [store |-> BackendSet(s, key, Append(validTimestamps, t)),
              err   |-> NoError]

\* hit() that tests length > limit in place of length >= limit
HitAfterGetOffByOne(s, key, timestamps, t) ==
    LET windowStart     == t - windowMs
        validTimestamps == ValidTimestamps(timestamps, windowStart)
    IN  IF Len(validTimestamps) > limit
        THEN LET oldestTimestamp == validTimestamps[1]
                 resetIn == CeilSeconds(oldestTimestamp + windowMs - t)
             IN  [store |-> s,
                  err   |-> RateLimitError(resetIn, limit, windowMs)]
        ELSE [store |-> BackendSet(s, key, Append(validTimestamps, t)),
              err   |-> NoError]

\* hit() from the filter on: what it does with the timestamps its get
\* returned, on the store s it finds when it resumes
HitAfterGet(s, key, timestamps, t) ==
    LET windowStart     == t - windowMs
        validTimestamps == ValidTimestamps(timestamps, windowStart)
    IN  IF Len(validTimestamps) >= limit
        THEN LET oldestTimestamp == validTimestamps[1]
                 resetIn == CeilSeconds(oldestTimestamp + windowMs - t)
             IN  [store |-> s,
                  err   |-> RateLimitError(resetIn, limit, windowMs)]
        ELSE [store |-> BackendSet(s, key, Append(validTimestamps, t)),
              err   |-> NoError]

\* cleanup that reads the stored timestamps again before it writes
CleanupAfterGetReread(s, key, timestamps, windowStart) ==
    LET validTimestamps == ValidTimestamps(BackendGet(s, key), windowStart)
    IN  IF Len(validTimestamps) = 0
        THEN BackendDelete(s, key)
        ELSE IF Len(validTimestamps) < Len(BackendGet(s, key))
        THEN BackendSet(s, key, validTimestamps)
        ELSE s

\* the body of cleanup's loop from the filter on
CleanupAfterGet(s, key, timestamps, windowStart) ==
    LET validTimestamps == ValidTimestamps(timestamps, windowStart)
    IN  IF Len(validTimestamps) = 0
        THEN BackendDelete(s, key)
        ELSE IF Len(validTimestamps) < Len(timestamps)
        THEN BackendSet(s, key, validTimestamps)
        ELSE s

\* the hit() calls begun and not yet completed
HitsInFlight ==
    Cardinality({p \in Procs :
        calls[p].op = "hit" /\ calls[p].pc \in {"began", "got"}})

Free(p) == calls[p].pc \in {"idle", "done"}

\* const now = Date.now(), up to the await of backend.get(key)
HitBegin(p, key) ==
    /\ Free(p)
    /\ HitCalls + HitsInFlight < MaxHits
    /\ calls' = [calls EXCEPT ![p] =
                   [op |-> "hit", pc |-> "began", key |-> key, t |-> now,
                    read |-> <<>>, todo |-> <<>>, ok |-> TRUE]]
    /\ UNCHANGED <<limit, windowMs, store, now, hist, denied, promise, last>>

\* backend.get(key) answers
HitGet(p) ==
    /\ calls[p].op = "hit" /\ calls[p].pc = "began"
    /\ calls' = [calls EXCEPT ![p].pc = "got",
                              ![p].read = BackendGet(store, calls[p].key)]
    /\ UNCHANGED <<limit, windowMs, store, now, hist, denied, promise, last>>

\* the rest of hit(): filter, test, throw or push and backend.set
HitSet(p) ==
    LET c == calls[p]
        r == HitAfterGet(store, c.key, c.read, c.t)
    IN  /\ c.op = "hit" /\ c.pc = "got"
        /\ store' = r.store
        /\ hist' = [hist EXCEPT ![c.key] =
                      Append(@, [at |-> c.t, ok |-> ~r.err.thrown,
                                 resetIn |-> r.err.resetIn, due |-> FALSE])]
        /\ calls' = [calls EXCEPT ![p].pc = "done",
                                  ![p].ok = ~r.err.thrown]
        /\ UNCHANGED <<limit, windowMs, now, denied, promise, last>>

\* const now = Date.now(), up to the await of backend.keys()
CleanupBegin(p) ==
    /\ Free(p)
    /\ calls' = [calls EXCEPT ![p] =
                   [op |-> "cleanup", pc |-> "began", key |-> NoKey,
                    t |-> now, read |-> <<>>, todo |-> <<>>, ok |-> TRUE]]
    /\ UNCHANGED <<limit, windowMs, store, now, hist, denied, promise, last>>

\* backend.keys() answers
CleanupKeys(p) ==
    /\ calls[p].op = "cleanup" /\ calls[p].pc = "began"
    /\ calls' = [calls EXCEPT
                   ![p].todo = BackendKeys(store),
                   ![p].pc = IF BackendKeys(store) = <<>>
                             THEN "done" ELSE "loop"]
    /\ UNCHANGED <<limit, windowMs, store, now, hist, denied, promise, last>>

\* backend.get(key) answers for the next key of allKeys
CleanupGet(p) ==
    /\ calls[p].op = "cleanup" /\ calls[p].pc = "loop"
    /\ calls' = [calls EXCEPT
                   ![p].pc = "got",
                   ![p].key = Head(calls[p].todo),
                   ![p].read = BackendGet(store, Head(calls[p].todo))]
    /\ UNCHANGED <<limit, windowMs, store, now, hist, denied, promise, last>>

\* the rest of the loop body: filter, then delete, set or nothing
CleanupWrite(p) ==
    LET c == calls[p]
    IN  /\ c.op = "cleanup" /\ c.pc = "got"
        /\ store' = CleanupAfterGet(store, c.key, c.read, c.t - windowMs)
        /\ calls' = [calls EXCEPT
                       ![p].todo = Tail(c.todo),
                       ![p].pc = IF Tail(c.todo) = <<>>
                                 THEN "done" ELSE "loop"]
        /\ UNCHANGED <<limit, windowMs, now, hist, denied, promise, last>>

NextAsync ==
    \/ Tick
    \/ \E p \in Procs : \E key \in AsyncKeys : HitBegin(p, key)
    \/ \E p \in Procs : HitGet(p)
    \/ \E p \in Procs : HitSet(p)
    \/ \E p \in Sweepers : CleanupBegin(p)
    \/ \E p \in Procs : CleanupKeys(p)
    \/ \E p \in Procs : CleanupGet(p)
    \/ \E p \in Procs : CleanupWrite(p)

SpecAsync == Init /\ [][NextAsync]_vars

(***************************************************************************)
(* Properties                                                              *)
(***************************************************************************)
\* the instants the clock takes: hits are recorded at these only, so a
\* window (t - windowMs, t] holds the most hits when t is one of them
Instants == {i * TickMs : i \in 0..MaxTicks}

\* the successful hits on key recorded in (t - windowMs, t]
Admitted(key, t) ==
    {i \in DOMAIN hist[key] :
        /\ hist[key][i].ok
        /\ hist[key][i].at > t - windowMs
        /\ hist[key][i].at <= t}

Successes(key) == {i \in DOMAIN hist[key] : hist[key][i].ok}
Failures(key)  == {i \in DOMAIN hist[key] : ~hist[key][i].ok}

\* every stored timestamp of key is at or before now - windowMs
AllExpired(s, key) ==
    \A i \in DOMAIN BackendGet(s, key) :
        BackendGet(s, key)[i] <= now - windowMs

Unexpired(s, key) ==
    {i \in DOMAIN BackendGet(s, key) : BackendGet(s, key)[i] > now - windowMs}

\* C1: with calls that run one at a time and a clock that never goes back,
\* for every key and instant t at most limit successful hits are recorded
\* in (t - windowMs, t].
C1_SlidingWindowLimit ==
    \A key \in Keys : \A t \in Instants :
        Cardinality(Admitted(key, t)) <= limit

\* a key that admitted more than limit hits in all, was full in some window
\* and refused a hit
C1_Witness ==
    \E key \in Keys :
        /\ Cardinality(Successes(key)) > limit
        /\ Failures(key) # {}
        /\ \E t \in Instants : Cardinality(Admitted(key, t)) = limit

\* C2: the first n <= limit hits on a key, made less than windowMs apart,
\* all succeed, and while the first is inside the window remaining(key) is
\* limit - n after the n-th.
C2_HitsWithinLimit ==
    \A key \in Keys :
        LET h == hist[key]
        IN  \A n \in 1..Len(h) :
                (n <= limit /\ h[n].at - h[1].at < windowMs)
                => /\ \A i \in 1..n : h[i].ok
                   /\ (n = Len(h) /\ now - h[1].at < windowMs)
                      => RemainingCall(store, key, now).ret = limit - n

C2_Witness ==
    \E key \in Keys :
        /\ limit = MaxLimit
        /\ Len(hist[key]) = limit
        /\ hist[key][1].at < hist[key][limit].at
        /\ hist[key][limit].at < now
        /\ now - hist[key][1].at < windowMs
        /\ last.op = "remaining" /\ last.key = key /\ last.value = 0

\* C3: a hit made while limit earlier successful hits on the key are inside
\* its window fails with a RateLimitError whose resetIn is positive and
\* whose limit and windowMs are those of the gate.
C3_OverLimitError ==
    \A key \in Keys :
        LET h == hist[key]
            j == Len(h)
        IN  (/\ last.op = "hit" /\ last.key = key /\ j >= 1
             /\ Cardinality({i \in 1..(j - 1) :
                    h[i].ok /\ h[i].at > h[j].at - windowMs}) >= limit)
            => /\ ~h[j].ok
               /\ last.err.thrown
               /\ last.err.resetIn > 0
               /\ last.err.limit = limit
               /\ last.err.windowMs = windowMs

C3_Witness ==
    \E key \in Keys :
        /\ limit = MaxLimit
        /\ last.op = "hit" /\ last.key = key /\ last.err.thrown
        /\ Len(hist[key]) = limit + 1
        /\ hist[key][1].at < hist[key][limit + 1].at

\* C4: once a key is at its limit and no further hit on it succeeds, at
\* every instant later than windowMs after the oldest hit counted then,
\* check(key) returns true and hit(key) succeeds.
C4_ReadmittedAfterWindow ==
    \A key \in Keys :
        (denied[key] # None /\ now > denied[key] + windowMs)
        => /\ CheckCall(store, key, now).ret
           /\ ~HitCall(store, key, now).err.thrown

C4_Witness ==
    \E key \in Keys :
        /\ denied[key] # None /\ now > denied[key] + windowMs
        /\ Failures(key) # {}
        /\ last.op = "check" /\ last.key = key /\ last.ok

\* C5: a hit made at or after t + 1000 * r, where r is the resetIn of a hit
\* that failed at t or the value resetIn(key) returned at t with the key at
\* its limit, and no hit on the key succeeded since t, succeeds.
C5_RetryAfter ==
    \A key \in Keys : \A i \in DOMAIN hist[key] :
        hist[key][i].due => hist[key][i].ok

C5_Witness ==
    \E key \in Keys : \E i \in DOMAIN hist[key] :
        /\ i > 1
        /\ ~hist[key][i - 1].ok /\ hist[key][i - 1].resetIn = 2
        /\ hist[key][i].due /\ hist[key][i].ok
        /\ hist[key][i].at = hist[key][i - 1].at + 2 * MsPerSecond

\* C6: hit(k1), successful or not, leaves the stored sequence of every other
\* key k2 as it was, and with it what check, remaining, resetIn and hit
\* return for k2.
C6_KeyIndependence ==
    [][\A k1 \in Keys : Hit(k1) =>
         \A k2 \in Keys \ {k1} :
            /\ (k2 \in DOMAIN store') <=> (k2 \in DOMAIN store)
            /\ BackendGet(store', k2) = BackendGet(store, k2)
            /\ CheckCall(store', k2, now).ret = CheckCall(store, k2, now).ret
            /\ RemainingCall(store', k2, now).ret
                 = RemainingCall(store, k2, now).ret
            /\ ResetInCall(store', k2, now).ret
                 = ResetInCall(store, k2, now).ret
            /\ HitCall(store', k2, now).err = HitCall(store, k2, now).err]_vars

\* a failing hit on one key while the other key is at its limit
C6_Witness ==
    \E k1 \in Keys : \E k2 \in Keys \ {k1} :
        /\ last.op = "hit" /\ last.key = k1 /\ ~last.ok
        /\ k2 \in DOMAIN store
        /\ ~CheckCall(store, k2, now).ret

\* C7: cleanup removes every key whose stored timestamps are all expired,
\* leaves the number of unexpired timestamps of every other key unchanged,
\* and check, remaining and resetIn return for every key what they returned
\* before it.
C7_CleanupKeepsCounts ==
    [][Cleanup =>
         \A key \in Keys :
            /\ (key \in DOMAIN store /\ AllExpired(store, key))
               => key \notin DOMAIN store'
            /\ ~(key \in DOMAIN store /\ AllExpired(store, key))
               => Cardinality(Unexpired(store', key))
                    = Cardinality(Unexpired(store, key))
            /\ CheckCall(store', key, now).ret = CheckCall(store, key, now).ret
            /\ RemainingCall(store', key, now).ret
                 = RemainingCall(store, key, now).ret
            /\ ResetInCall(store', key, now).ret
                 = ResetInCall(store, key, now).ret]_vars

\* a cleanup that deleted one key and pruned another
C7_Witness ==
    /\ last.op = "cleanup"
    /\ \E k1 \in Keys : \E k2 \in Keys \ {k1} :
        /\ k1 \notin DOMAIN store
        /\ \E i \in DOMAIN last.calls : last.calls[i] = <<"delete", k1>>
        /\ \E i \in DOMAIN last.calls : last.calls[i] = <<"set", k2>>
        /\ k2 \in DOMAIN store

\* C8: check, remaining and resetIn issue one backend get and nothing else,
\* and leave the stored sequences and the key set as they were.
C8_QueriesReadOnly ==
    [][\A key \in Keys :
         (Check(key) \/ Remaining(key) \/ ResetIn(key))
         => /\ store' = store
            /\ last'.calls = << <<"get", key>> >>]_vars

\* a query on a key that still stores an expired timestamp
C8_Witness ==
    \E key \in Keys :
        /\ last.op \in {"check", "remaining", "resetIn"} /\ last.key = key
        /\ key \in DOMAIN store
        /\ \E i \in DOMAIN store[key] : store[key][i] <= now - windowMs

\* C9: for a key on which hit was never called, check returns true and
\* remaining returns limit, at every instant.
C9_UnusedKey ==
    \A key \in Keys :
        hist[key] = <<>>
        => /\ CheckCall(store, key, now).ret
           /\ RemainingCall(store, key, now).ret = limit

C9_Witness ==
    \E key \in Keys : \E other \in Keys \ {key} :
        /\ hist[key] = <<>>
        /\ ~CheckCall(store, other, now).ret
        /\ now > 0
        /\ last.op = "remaining" /\ last.key = key /\ last.value = limit

\* C10: resetIn returns 0 for a key with no unexpired timestamp: never hit,
\* deleted by cleanup, or with every stored timestamp at or before
\* now - windowMs.
C10_ResetInZero ==
    \A key \in Keys :
        AllExpired(store, key) => ResetInCall(store, key, now).ret = 0

\* resetIn returned 0 for a key whose expired timestamps are still stored
C10_Witness ==
    \E key \in Keys :
        /\ key \in DOMAIN store /\ store[key] # <<>>
        /\ AllExpired(store, key)
        /\ last.op = "resetIn" /\ last.key = key /\ last.value = 0

\* the indices of the timestamps of seq later than windowStart, the j-th
\* smallest of a set of indices, and the timestamps at those indices in
\* their stored order
KeptIdx(seq, windowStart) == {i \in DOMAIN seq : seq[i] > windowStart}

Nth(S, j) == CHOOSE i \in S : Cardinality({m \in S : m < i}) = j - 1

KeptSeq(seq, windowStart) ==
    [j \in 1..Cardinality(KeptIdx(seq, windowStart)) |->
        seq[Nth(KeptIdx(seq, windowStart), j)]]

\* the least integer n with MsPerSecond * n >= ms
CeilOf(ms) ==
    LET most == (MaxNow + windowMs) \div MsPerSecond + 1
    IN  CHOOSE n \in (0 - most)..most :
            /\ MsPerSecond * n >= ms
            /\ MsPerSecond * (n - 1) < ms

\* the least unexpired timestamp stored for key
MinValid(s, key) ==
    CHOOSE ts \in {BackendGet(s, key)[i] : i \in Unexpired(s, key)} :
        \A i \in Unexpired(s, key) : ts <= BackendGet(s, key)[i]

\* the backend calls of a completed call that name key
CallsFor(cs, key) == SelectSeq(cs, LAMBDA c : c[2] = key)

\* C12: resetIn(key) returns 0 whenever check(key) at the same instant
\* returns true (the key is not throttled).
C12_ResetInZeroWhenAdmitted ==
    \A key \in Keys :
        CheckCall(store, key, now).ret => ResetInCall(store, key, now).ret = 0

\* C13: a hit that raises RateLimitError issues no backend set or delete
\* and leaves the stored sequence of every key as it was.
C13_FailingHitChangesNothing ==
    [][\A key \in Keys :
         (Hit(key) /\ ~last'.ok)
         => /\ store' = store
            /\ last'.calls = << <<"get", key>> >>]_vars

\* a refused hit while the other key still stores an expired timestamp
C13_Witness ==
    \E key \in Keys : \E other \in Keys \ {key} :
        /\ last.op = "hit" /\ last.key = key /\ last.err.thrown
        /\ other \in DOMAIN store
        /\ \E i \in DOMAIN store[other] : store[other][i] <= now - windowMs

\* C14: a successful hit(key) at instant now leaves for key exactly the
\* stored timestamps later than now - windowMs, in their stored order,
\* followed by now, and changes no other key.
C14_SuccessfulHitStores ==
    [][\A key \in Keys :
         (Hit(key) /\ last'.ok)
         => /\ key \in DOMAIN store'
            /\ store'[key]
                 = KeptSeq(BackendGet(store, key), now - windowMs) \o <<now>>
            /\ \A other \in Keys \ {key} :
                  /\ (other \in DOMAIN store') <=> (other \in DOMAIN store)
                  /\ BackendGet(store', other) = BackendGet(store, other)]_vars

\* a successful hit that kept one stored timestamp and dropped an expired one
C14_Witness ==
    \E key \in Keys :
        /\ last.op = "hit" /\ last.key = key /\ last.ok
        /\ Len(store[key]) = 2
        /\ Cardinality(Successes(key)) = 3
        /\ store[key][2] = now

\* C17: cleanup handles each stored key by the sequence pruned at its
\* instant: empty, the key is deleted; non-empty and shorter than the
\* stored one, it is written back; of the same length, no set or delete is
\* issued for the key and its stored sequence is unchanged.
C17_CleanupThreeWays ==
    [][Cleanup =>
         \A key \in DOMAIN store :
            LET pruned == KeptSeq(store[key], now - windowMs)
                issued == CallsFor(last'.calls, key)
            IN  /\ Len(pruned) = 0
                   => /\ key \notin DOMAIN store'
                      /\ issued = << <<"get", key>>, <<"delete", key>> >>
                /\ (Len(pruned) > 0 /\ Len(pruned) < Len(store[key]))
                   => /\ key \in DOMAIN store'
                      /\ store'[key] = pruned
                      /\ issued = << <<"get", key>>, <<"set", key>> >>
                /\ Len(pruned) = Len(store[key])
                   => /\ key \in DOMAIN store'
                      /\ store'[key] = store[key]
                      /\ issued = << <<"get", key>> >>]_vars

\* a cleanup that deleted one key and left the other untouched
C17_Witness ==
    /\ last.op = "cleanup"
    /\ \E k1 \in Keys : \E k2 \in Keys \ {k1} :
        /\ CallsFor(last.calls, k1) = << <<"get", k1>>, <<"delete", k1>> >>
        /\ CallsFor(last.calls, k2) = << <<"get", k2>> >>
        /\ k1 \notin DOMAIN store
        /\ k2 \in DOMAIN store

\* C18: with calls that run one at a time and a clock that never goes
\* back, the resetIn of a RateLimitError is
\* ceil((oldest valid timestamp + windowMs - now) / 1000) and lies in
\* 1..ceil(windowMs / 1000); resetIn(key) lies in the same range whenever
\* the key has an unexpired timestamp.
C18_ResetInBounds ==
    \A key \in Keys :
        /\ HitCall(store, key, now).err.thrown
           => LET r == HitCall(store, key, now).err.resetIn
              IN  /\ r = CeilOf(MinValid(store, key) + windowMs - now)
                  /\ 1 <= r /\ r <= CeilOf(windowMs)
        /\ Unexpired(store, key) # {}
           => /\ 1 <= ResetInCall(store, key, now).ret
              /\ ResetInCall(store, key, now).ret <= CeilOf(windowMs)

\* a refused hit whose oldest valid timestamp is neither the newest one nor
\* a whole number of seconds from leaving the window
C18_Witness ==
    \E key \in Keys :
        /\ last.op = "hit" /\ last.key = key /\ last.err.thrown
        /\ Len(store[key]) = 2 /\ store[key][1] < store[key][2]
        /\ last.err.resetIn = 1
        /\ store[key][1] + windowMs - hist[key][Len(hist[key])].at = TickMs

\* C20: check(key) returns true exactly when remaining(key) > 0 and exactly
\* when hit(key) at the same state and instant succeeds.
C20_OneAdmissionRule ==
    \A key \in Keys :
        /\ CheckCall(store, key, now).ret
             <=> (RemainingCall(store, key, now).ret > 0)
        /\ CheckCall(store, key, now).ret
             <=> ~HitCall(store, key, now).err.thrown

\* a check on a key at its limit while the other key, hit before, is below it
C20_Witness ==
    \E key \in Keys : \E other \in Keys \ {key} :
        /\ last.op = "check" /\ last.key = key /\ ~last.ok
        /\ hist[other] # <<>>
        /\ Unexpired(store, other) # {}
        /\ CheckCall(store, other, now).ret

\* the successful hits on key recorded later than instant t
AdmittedSince(key, t) == {i \in Successes(key) : hist[key][i].at > t}

\* C11: when a hit resumes from its get after another call has written the
\* key, its set overwrites what was written: the key holds the unexpired
\* timestamps of the stale read followed by the hit's own instant.
C11_StaleHitOverwrites ==
    [][\A p \in Procs :
         (/\ HitSet(p)
          /\ calls'[p].ok
          /\ BackendGet(store, calls[p].key) # calls[p].read)
         => BackendGet(store', calls[p].key)
              = KeptSeq(calls[p].read, calls[p].t - windowMs)
                  \o <<calls[p].t>>]_vars

\* two hits on one key admitted from the same read: one of the two recorded
\* timestamps is gone and the window holds more than limit admitted hits
C11_Witness ==
    \E p \in Procs : \E q \in Procs \ {p} :
        /\ calls[p].op = "hit" /\ calls[p].pc = "done" /\ calls[p].ok
        /\ calls[q].op = "hit" /\ calls[q].pc = "done" /\ calls[q].ok
        /\ calls[p].key = calls[q].key
        /\ calls[p].read = calls[q].read
        /\ Cardinality(Admitted(calls[p].key, now)) > limit
        /\ Cardinality(Unexpired(store, calls[p].key))
             < Cardinality(Admitted(calls[p].key, now))

\* C15: the stored sequence of each key is in non-decreasing order, also
\* when hit calls on the key overlap on a backend whose get and set
\* suspend.
C15_StoredSorted ==
    \A key \in DOMAIN store :
        \A i \in DOMAIN store[key] : \A j \in DOMAIN store[key] :
            i < j => store[key][i] <= store[key][j]

C19_StoredAtMostLimit ==
    \A key \in DOMAIN store : Len(store[key]) <= limit

\* a full key after more than limit hits were admitted in one window and a
\* cleanup has run
C19_Witness ==
    \E key \in DOMAIN store : \E p \in Sweepers :
        /\ Len(store[key]) = limit
        /\ limit = MaxLimit
        /\ Cardinality(Admitted(key, now)) > limit
        /\ calls[p].op = "cleanup" /\ calls[p].pc = "done"

\* C21: starting from an empty backend that only the gate writes, every key
\* the backend's keys() returns has at least one stored timestamp.
C21_NoEmptySequence ==
    \A i \in DOMAIN BackendKeys(store) :
        Len(BackendGet(store, BackendKeys(store)[i])) >= 1

\* a cleanup that deleted a key whose timestamps had all expired and wrote
\* back the remaining timestamps of the other key
C21_Witness ==
    /\ last.op = "cleanup"
    /\ \E k1 \in Keys : \E k2 \in Keys \ {k1} :
        /\ CallsFor(last.calls, k1) = << <<"get", k1>>, <<"delete", k1>> >>
        /\ CallsFor(last.calls, k2) = << <<"get", k2>>, <<"set", k2>> >>
        /\ BackendKeys(store) = <<k2>>
        /\ Len(hist[k1]) >= 1
====
